---------------------------- MODULE Spec2Model ----------------------------
(* Model of src/src/05-objects-tasks.js: the fluent css selector builder  *)
(* (cssSelectorBuilder), Rectangle, and the getJSON / fromJSON pair.      *)
(*                                                                         *)
(* JavaScript strings are TLA+ strings ('' is ""), arrays are sequences,  *)
(* objects are records, and object references are indices into heap.      *)
EXTENDS Integers, Sequences, FiniteSets, TLC

VARIABLES heap,      \* every fragment-set object; heap[cssSelectorBuilder] is the shared template
          ret,       \* outcome of the last call: a returned reference, a returned string or a thrown Error
          last,      \* the last call: method, receiver, argument and the object `a` its body worked on
          before,    \* history: the heap, `a` and what had been supplied to it, as they were when the body started
          supplied,  \* history: per object, the <<category, name>> of every accepted add since its last stringify()
          thrown,    \* history: per object, whether a call on it has thrown since its last stringify()
          chains,    \* history: per client chain, the object it holds and the heap it would have if run alone
          called,    \* history: the chain the last call was made on (0: on cssSelectorBuilder itself)
          held,      \* the compound selector the client holds, if any: <<>> or <<x>>
          args,      \* Rectangle: the arguments of the last call, <<>> or <<width, height>>
          rect,      \* Rectangle: the object the last call returned, <<>> or <<r>>
          area,      \* Rectangle: what getArea() returned on it, <<>> or <<n>>
          given,     \* getJSON / fromJSON: the value and the prototype handed over
          json,      \* the text getJSON returned for the value, <<>> or <<text>>
          made       \* the object fromJSON returned for the prototype and that text, <<>> or <<object>>

vars == <<heap, ret, last, before, supplied, thrown, chains, called, held, args, rect, area,
          given, json, made>>

\* what the calls on one chain leave alone
others == <<chains, called, held>>

\* what the selector builder leaves alone
apart == <<args, rect, area, given, json, made>>

\* what Rectangle leaves alone
selectors == <<heap, ret, last, before, supplied, thrown, chains, called, held, given, json, made>>

\* what getJSON and fromJSON leave alone
rest == <<heap, ret, last, before, supplied, thrown, chains, called, held, args, rect, area>>

-----------------------------------------------------------------------------
(* Bounds and input alphabets *)

\* cap on the class + attribute + pseudo-class entries one object holds
MaxLen == 2

\* cap on the adds one object accepts between two stringify() calls
MaxAdds == 3

\* names handed to the add-operations ('' included: the code compares with '')
Names == {"", "a", "b"}

\* cap on the accepted adds that all chains together hold
MaxFrags == 4

\* cap on the accepted adds all objects hold together when compounds are built from them
MaxHeld == 2

\* cap on the own fields of a value handed to getJSON
MaxFields == 2

\* largest width and height handed to Rectangle
MaxSide == 9

\* cap on the nesting of combine() calls
MaxDepth == 2

\* combinator strings handed to combine ('!' is no css combinator)
Symbols == {"+", "!"}

\* the chains whose results are handed to combine
Operands ==
  {<<<<"id", "b">>, <<"class", "a">>>>,
   <<<<"element", "b">>, <<"attr", "a">>, <<"pseudoClass", "b">>>>}

\* two chains run side by side: the name each hands to its add-operations
ChainNames == <<"a", "b">>

-----------------------------------------------------------------------------
(* The two Error messages *)

DuplicateMsg == "Element, id and pseudo-element should not occur more then one time inside the selector"

OrderMsg == "Selector parts should be arranged in the following order: element, id, class, attribute, pseudo-class, pseudo-element"

-----------------------------------------------------------------------------
(* Objects *)

\* reference to the shared template object
cssSelectorBuilder == 1

\* the template's own data properties
Template ==
  [isBasic |-> TRUE, nameEl |-> "", nameID |-> "", nameCl |-> <<>>,
   nameAt |-> <<>>, namePC |-> <<>>, namePE |-> ""]

\* clear without the last assignment
clearStaysBasic(this) ==
  [this EXCEPT !.nameEl = "", !.nameID = "", !.nameCl = <<>>, !.nameAt = <<>>,
               !.namePC = <<>>, !.namePE = ""]

\* clear(): a copy of `this` with every fragment field reset and isBasic false
clear(this) ==
  [this EXCEPT !.nameEl = "", !.nameID = "", !.nameCl = <<>>, !.nameAt = <<>>,
               !.namePC = <<>>, !.namePE = "", !.isBasic = FALSE]

\* Receiver without the clone: the add works on this itself
ReceiverNoClone(h, this) == [heap |-> h, a |-> this]

\* let a = this; if (a.isBasic === true) a = this.clear();
Receiver(h, this) ==
  IF h[this].isBasic = TRUE
    THEN [heap |-> Append(h, clear(h[this])), a |-> Len(h) + 1]
    ELSE [heap |-> h, a |-> this]

\* return a;
Return(h, a) == [heap |-> h, a |-> a, ret |-> [kind |-> "ref", ref |-> a, str |-> ""]]

\* throw new Error(msg);
Throw(h, a, msg) == [heap |-> h, a |-> a, ret |-> [kind |-> "throw", ref |-> 0, str |-> msg]]

-----------------------------------------------------------------------------
(* The six add-operations, as functions of the heap *)

\* element testing the three lists for a name other than '', not for their length
elementNamedLists(h, this, value) ==
  LET r == Receiver(h, this)
      a == r.heap[r.a]
      named(list) == \E i \in DOMAIN list : list[i] # ""
  IN  IF a.nameEl # ""
        THEN Throw(r.heap, r.a, DuplicateMsg)
      ELSE IF a.namePE # "" \/ named(a.namePC) \/ named(a.nameAt)
              \/ named(a.nameCl) \/ a.nameID # ""
        THEN Throw(r.heap, r.a, OrderMsg)
      ELSE Return([r.heap EXCEPT ![r.a].nameEl = value], r.a)

element(h, this, value) ==
  LET r == Receiver(h, this)
      a == r.heap[r.a]
  IN  IF a.nameEl # ""
        THEN Throw(r.heap, r.a, DuplicateMsg)
      ELSE IF a.namePE # "" \/ Len(a.namePC) # 0 \/ Len(a.nameAt) # 0
              \/ Len(a.nameCl) # 0 \/ a.nameID # ""
        THEN Throw(r.heap, r.a, OrderMsg)
      ELSE Return([r.heap EXCEPT ![r.a].nameEl = value], r.a)

\* id with its two checks in the opposite order
idOrderFirst(h, this, value) ==
  LET r == Receiver(h, this)
      a == r.heap[r.a]
  IN  IF a.namePE # "" \/ Len(a.namePC) # 0 \/ Len(a.nameAt) # 0
         \/ Len(a.nameCl) # 0
        THEN Throw(r.heap, r.a, OrderMsg)
      ELSE IF a.nameID # ""
        THEN Throw(r.heap, r.a, DuplicateMsg)
      ELSE Return([r.heap EXCEPT ![r.a].nameID = value], r.a)

id(h, this, value) ==
  LET r == Receiver(h, this)
      a == r.heap[r.a]
  IN  IF a.nameID # ""
        THEN Throw(r.heap, r.a, DuplicateMsg)
      ELSE IF a.namePE # "" \/ Len(a.namePC) # 0 \/ Len(a.nameAt) # 0
              \/ Len(a.nameCl) # 0
        THEN Throw(r.heap, r.a, OrderMsg)
      ELSE Return([r.heap EXCEPT ![r.a].nameID = value], r.a)

\* class without the test of nameAt
classNoAttrCheck(h, this, value) ==
  LET r == Receiver(h, this)
      a == r.heap[r.a]
  IN  IF a.namePE # "" \/ Len(a.namePC) # 0
        THEN Throw(r.heap, r.a, OrderMsg)
      ELSE Return([r.heap EXCEPT ![r.a].nameCl = Append(@, value)], r.a)

class(h, this, value) ==
  LET r == Receiver(h, this)
      a == r.heap[r.a]
  IN  IF a.namePE # "" \/ Len(a.namePC) # 0 \/ Len(a.nameAt) # 0
        THEN Throw(r.heap, r.a, OrderMsg)
      ELSE Return([r.heap EXCEPT ![r.a].nameCl = Append(@, value)], r.a)

\* attr pushing onto this, not onto the clone
attrOnThis(h, this, value) ==
  LET r == Receiver(h, this)
      pushed == [r.heap EXCEPT ![this].nameAt = Append(@, value)]
      a == pushed[r.a]
  IN  IF a.namePE # "" \/ Len(a.namePC) # 0
        THEN Throw(pushed, r.a, OrderMsg)
      ELSE Return(pushed, r.a)

\* attr pushes first and checks the order afterwards
attr(h, this, value) ==
  LET r == Receiver(h, this)
      pushed == [r.heap EXCEPT ![r.a].nameAt = Append(@, value)]
      a == pushed[r.a]
  IN  IF a.namePE # "" \/ Len(a.namePC) # 0
        THEN Throw(pushed, r.a, OrderMsg)
      ELSE Return(pushed, r.a)

pseudoClass(h, this, value) ==
  LET r == Receiver(h, this)
      a == r.heap[r.a]
  IN  IF a.namePE # ""
        THEN Throw(r.heap, r.a, OrderMsg)
      ELSE Return([r.heap EXCEPT ![r.a].namePC = Append(@, value)], r.a)

\* pseudoElement without the duplicate test
pseudoElementNoDup(h, this, value) ==
  LET r == Receiver(h, this)
  IN  Return([r.heap EXCEPT ![r.a].namePE = value], r.a)

pseudoElement(h, this, value) ==
  LET r == Receiver(h, this)
      a == r.heap[r.a]
  IN  IF a.namePE # ""
        THEN Throw(r.heap, r.a, DuplicateMsg)
      ELSE Return([r.heap EXCEPT ![r.a].namePE = value], r.a)

-----------------------------------------------------------------------------
(* stringify() of a fragment set *)

\* one of the three for-loops: str += open + list[i] + close, for i = 0 .. length-1
RECURSIVE Loop(_, _, _)
Loop(list, open, close) ==
  IF list = <<>> THEN ""
  ELSE open \o Head(list) \o close \o Loop(Tail(list), open, close)

\* Render with the attribute loop ahead of the class loop
RenderSwapped(o) ==
  (IF o.nameEl # "" THEN o.nameEl ELSE "")
  \o (IF o.nameID # "" THEN "#" \o o.nameID ELSE "")
  \o Loop(o.nameAt, "[", "]")
  \o Loop(o.nameCl, ".", "")
  \o Loop(o.namePC, ":", "")
  \o (IF o.namePE # "" THEN "::" \o o.namePE ELSE "")

\* the string built by lines 233-251
Render(o) ==
  (IF o.nameEl # "" THEN o.nameEl ELSE "")
  \o (IF o.nameID # "" THEN "#" \o o.nameID ELSE "")
  \o Loop(o.nameCl, ".", "")
  \o Loop(o.nameAt, "[", "]")
  \o Loop(o.namePC, ":", "")
  \o (IF o.namePE # "" THEN "::" \o o.namePE ELSE "")

\* Reset without the last assignment
ResetKeepsPE(o) ==
  [o EXCEPT !.nameEl = "", !.nameID = "", !.nameCl = <<>>, !.nameAt = <<>>,
            !.namePC = <<>>]

\* the resets of lines 252-257 (isBasic is not touched)
Reset(o) ==
  [o EXCEPT !.nameEl = "", !.nameID = "", !.nameCl = <<>>, !.nameAt = <<>>,
            !.namePC = <<>>, !.namePE = ""]

\* stringify without the resets
stringifyKeeps(h, this) ==
  [heap |-> h, a |-> this, ret |-> [kind |-> "str", ref |-> 0, str |-> Render(h[this])]]

stringify(h, this) ==
  [heap |-> [h EXCEPT ![this] = Reset(h[this])], a |-> this,
   ret |-> [kind |-> "str", ref |-> 0, str |-> Render(h[this])]]

-----------------------------------------------------------------------------
(* History kept beside the program state *)

\* grammar categories: element=0, id=1, class=2, attribute=3, pseudoClass=4, pseudoElement=5
Category(op) ==
  CASE op = "element" -> 0
    [] op = "id" -> 1
    [] op = "class" -> 2
    [] op = "attr" -> 3
    [] op = "pseudoClass" -> 4
    [] op = "pseudoElement" -> 5

AddOps == {"element", "id", "class", "attr", "pseudoClass", "pseudoElement"}

Singleton == {0, 1, 5}

\* supplied and thrown, grown to the size of the heap h (a clone starts with nothing supplied)
Grown(h) == [i \in 1..Len(h) |-> IF i <= Len(supplied) THEN supplied[i] ELSE <<>>]

GrownThrown(h) == [i \in 1..Len(h) |-> IF i <= Len(thrown) THEN thrown[i] ELSE FALSE]

\* number of list entries object o holds
Entries(o) == Len(o.nameCl) + Len(o.nameAt) + Len(o.namePC)

\* the call op(value) on this, with outcome r, becomes the new state
Call(op, this, value, r) ==
  /\ heap' = r.heap
  /\ ret' = r.ret
  /\ last' = [op |-> op, this |-> this, value |-> value, a |-> r.a]
  /\ before' = [heap |-> Receiver(heap, this).heap, obj |-> Receiver(heap, this).heap[r.a],
                 supplied |-> Grown(r.heap)[r.a], thrown |-> GrownThrown(r.heap)[r.a]]
  /\ supplied' = IF r.ret.kind = "ref"
                   THEN [Grown(r.heap) EXCEPT ![r.a] = Append(@, <<Category(op), value>>)]
                   ELSE Grown(r.heap)
  /\ thrown' = IF r.ret.kind = "throw"
                 THEN [GrownThrown(r.heap) EXCEPT ![r.a] = TRUE]
                 ELSE GrownThrown(r.heap)
  /\ UNCHANGED apart

-----------------------------------------------------------------------------
(* Actions: one per method *)

\* the model's size limits: this has room for one more accepted add / one more list entry
Room(this) == Len(supplied[this]) < MaxAdds

ListRoom(this) == Room(this) /\ Entries(heap[this]) < MaxLen

Element(this, value) ==
  /\ Room(this)
  /\ Call("element", this, value, element(heap, this, value))

Id(this, value) ==
  /\ Room(this)
  /\ Call("id", this, value, id(heap, this, value))

Class(this, value) ==
  /\ ListRoom(this)
  /\ Call("class", this, value, class(heap, this, value))

Attr(this, value) ==
  /\ ListRoom(this)
  /\ Call("attr", this, value, attr(heap, this, value))

PseudoClass(this, value) ==
  /\ ListRoom(this)
  /\ Call("pseudoClass", this, value, pseudoClass(heap, this, value))

PseudoElement(this, value) ==
  /\ Room(this)
  /\ Call("pseudoElement", this, value, pseudoElement(heap, this, value))

Stringify(this) ==
  LET r == stringify(heap, this)
  IN  /\ heap' = r.heap
      /\ ret' = r.ret
      /\ last' = [op |-> "stringify", this |-> this, value |-> "", a |-> this]
      /\ before' = [heap |-> heap, obj |-> heap[this], supplied |-> supplied[this],
                     thrown |-> thrown[this]]
      /\ supplied' = [supplied EXCEPT ![this] = <<>>]
      /\ thrown' = [thrown EXCEPT ![this] = FALSE]
      /\ UNCHANGED apart

-----------------------------------------------------------------------------
(* One fluent chain: builder.m1(..).m2(..)... , every call made on the    *)
(* object the chain holds: the template until the first add-operation has *)
(* returned its clone, that clone afterwards.                              *)

Chain == Len(heap)

\* the module has been loaded: only the template exists, nothing was called
Loaded ==
  /\ heap = <<Template>>
  /\ ret = [kind |-> "none", ref |-> 0, str |-> ""]
  /\ last = [op |-> "none", this |-> 0, value |-> "", a |-> 0]
  /\ before = [heap |-> <<Template>>, obj |-> Template, supplied |-> <<>>, thrown |-> FALSE]
  /\ supplied = <<<<>>>>
  /\ thrown = <<FALSE>>
  /\ chains = <<>>
  /\ called = 0
  /\ held = <<>>
  /\ args = <<>> /\ rect = <<>> /\ area = <<>>
  /\ given = <<>> /\ json = <<>> /\ made = <<>>

Init == Loaded

Next ==
  \/ \E value \in Names : Element(Chain, value) /\ UNCHANGED others
  \/ \E value \in Names : Id(Chain, value) /\ UNCHANGED others
  \/ \E value \in Names : Class(Chain, value) /\ UNCHANGED others
  \/ \E value \in Names : Attr(Chain, value) /\ UNCHANGED others
  \/ \E value \in Names : PseudoClass(Chain, value) /\ UNCHANGED others
  \/ \E value \in Names : PseudoElement(Chain, value) /\ UNCHANGED others
  \/ Stringify(Chain) /\ UNCHANGED others

Spec == Init /\ [][Next]_vars

-----------------------------------------------------------------------------
(* Several chains, each started by an add-operation on cssSelectorBuilder  *)
(* and continued on the value the previous call of the chain returned,     *)
(* their calls interleaved in any order.                                    *)

\* the method named op, applied on heap h
Apply(op, h, this, value) ==
  CASE op = "element" -> element(h, this, value)
    [] op = "id" -> id(h, this, value)
    [] op = "class" -> class(h, this, value)
    [] op = "attr" -> attr(h, this, value)
    [] op = "pseudoClass" -> pseudoClass(h, this, value)
    [] op = "pseudoElement" -> pseudoElement(h, this, value)
    [] op = "stringify" -> stringify(h, this)

\* the object chain k holds; chain 0 is cssSelectorBuilder itself
Holds(k) == IF k = 0 THEN cssSelectorBuilder ELSE chains[k].ref

\* accepted adds held by all objects together
RECURSIVE Total(_)
Total(s) == IF s = <<>> THEN 0 ELSE Len(Head(s)) + Total(Tail(s))

\* the name handed over by a call on chain k (a call on cssSelectorBuilder starts the next chain)
NameOf(k) == {ChainNames[IF k = 0 THEN Len(chains) + 1 ELSE k]}

\* an add may be called on chain k: a new chain may still be started, and the heap has room
MayAdd(k) ==
  /\ k = 0 => Len(chains) < Len(ChainNames)
  /\ Total(supplied) < MaxFrags

\* chain k after the call op(value): it holds the returned object, and alone
\* it would have made the same call on its own heap
Continued(c, op, value) ==
  LET u == Apply(op, c.alone.heap, c.alone.ref, value)
  IN  [ref |-> IF ret'.kind = "ref" THEN ret'.ref ELSE c.ref,
       alone |-> [heap |-> u.heap, ref |-> IF u.ret.kind = "ref" THEN u.ret.ref ELSE c.alone.ref]]

Track(k, op, value) ==
  /\ called' = k
  /\ chains' = IF k # 0 THEN [chains EXCEPT ![k] = Continued(@, op, value)]
               ELSE IF op \in AddOps /\ ret'.kind = "ref"
                 THEN Append(chains, Continued([ref |-> cssSelectorBuilder,
                        alone |-> [heap |-> <<Template>>, ref |-> cssSelectorBuilder]], op, value))
               ELSE chains

NextChains ==
  \/ \E k \in 0..Len(chains) : MayAdd(k) /\ \E value \in NameOf(k) :
        Element(Holds(k), value) /\ Track(k, "element", value) /\ UNCHANGED held
  \/ \E k \in 0..Len(chains) : MayAdd(k) /\ \E value \in NameOf(k) :
        Id(Holds(k), value) /\ Track(k, "id", value) /\ UNCHANGED held
  \/ \E k \in 0..Len(chains) : MayAdd(k) /\ \E value \in NameOf(k) :
        Class(Holds(k), value) /\ Track(k, "class", value) /\ UNCHANGED held
  \/ \E k \in 0..Len(chains) : MayAdd(k) /\ \E value \in NameOf(k) :
        Attr(Holds(k), value) /\ Track(k, "attr", value) /\ UNCHANGED held
  \/ \E k \in 0..Len(chains) : MayAdd(k) /\ \E value \in NameOf(k) :
        PseudoClass(Holds(k), value) /\ Track(k, "pseudoClass", value) /\ UNCHANGED held
  \/ \E k \in 0..Len(chains) : MayAdd(k) /\ \E value \in NameOf(k) :
        PseudoElement(Holds(k), value) /\ Track(k, "pseudoElement", value) /\ UNCHANGED held
  \/ \E k \in 0..Len(chains) : Stringify(Holds(k)) /\ Track(k, "stringify", "") /\ UNCHANGED held

SpecChains == Loaded /\ [][NextChains]_vars

-----------------------------------------------------------------------------
(* combine() and the compound selectors it returns.  A renderable is a     *)
(* fragment set, [set |-> reference], or a compound, [a, b, c]: the object *)
(* x of combine, whose stringify closes over the three arguments.           *)

IsSet(x) == DOMAIN x = {"set"}

combine(selector1, combinator, selector2) ==
  [a |-> selector1, b |-> combinator, c |-> selector2]

\* x.stringify() with the join of the template literal left out
RECURSIVE stringifyOfTight(_, _)
stringifyOfTight(h, x) ==
  IF IsSet(x)
    THEN [heap |-> stringify(h, x.set).heap, str |-> stringify(h, x.set).ret.str]
    ELSE LET s1 == stringifyOfTight(h, x.a)
             s2 == stringifyOfTight(s1.heap, x.c)
         IN  [heap |-> s2.heap, str |-> s1.str \o x.b \o s2.str]

\* x.stringify() for any renderable x: the heap it leaves and the string it returns;
\* `${selector1.stringify()} ${combinator} ${selector2.stringify()}` evaluates left to right
RECURSIVE stringifyOf(_, _)
stringifyOf(h, x) ==
  IF IsSet(x)
    THEN [heap |-> stringify(h, x.set).heap, str |-> stringify(h, x.set).ret.str]
    ELSE LET s1 == stringifyOf(h, x.a)
             s2 == stringifyOf(s1.heap, x.c)
         IN  [heap |-> s2.heap, str |-> s1.str \o " " \o x.b \o " " \o s2.str]

\* the fragment sets a renderable reaches
RECURSIVE Leaves(_)
Leaves(x) == IF IsSet(x) THEN {x.set} ELSE Leaves(x.a) \cup Leaves(x.c)

RECURSIVE Depth(_)
Depth(x) ==
  IF IsSet(x) THEN 0
  ELSE 1 + (IF Depth(x.a) > Depth(x.c) THEN Depth(x.a) ELSE Depth(x.c))

\* what the client can hand to combine: any fragment set and the compound it holds
Renderables == {[set |-> i] : i \in 1..Len(heap)} \cup {held[j] : j \in DOMAIN held}

Combine(selector1, combinator, selector2) ==
  /\ Depth(combine(selector1, combinator, selector2)) <= MaxDepth
  /\ held' = <<combine(selector1, combinator, selector2)>>
  /\ ret' = [kind |-> "compound", ref |-> 0, str |-> ""]
  /\ last' = [op |-> "combine", this |-> cssSelectorBuilder, value |-> combinator, a |-> 0]
  /\ before' = [heap |-> heap, obj |-> Template, supplied |-> <<>>, thrown |-> FALSE]
  /\ UNCHANGED <<heap, supplied, thrown, chains, called>>
  /\ UNCHANGED apart

StringifyCompound ==
  /\ held # <<>>
  /\ LET r == stringifyOf(heap, held[1])
     IN  /\ heap' = r.heap
         /\ ret' = [kind |-> "str", ref |-> 0, str |-> r.str]
         /\ last' = [op |-> "compound.stringify", this |-> 0, value |-> "", a |-> 0]
         /\ supplied' = [i \in DOMAIN supplied |->
                           IF i \in Leaves(held[1]) THEN <<>> ELSE supplied[i]]
         /\ thrown' = [i \in DOMAIN thrown |->
                         IF i \in Leaves(held[1]) THEN FALSE ELSE thrown[i]]
         /\ before' = [heap |-> heap, obj |-> Template, supplied |-> <<>>, thrown |-> FALSE]
         /\ UNCHANGED <<chains, called, held>>
         /\ UNCHANGED apart

\* the fluent chain calls, made on cssSelectorBuilder and then on what each call returned
RECURSIVE Run(_, _, _)
Run(h, this, calls) ==
  IF calls = <<>> THEN [heap |-> h, ref |-> this]
  ELSE LET r == Apply(Head(calls)[1], h, this, Head(calls)[2])
       IN  Run(r.heap, r.ret.ref, Tail(calls))

\* the accepted adds of such a chain, as supplied records them
Adds(calls) == [i \in DOMAIN calls |-> <<Category(calls[i][1]), calls[i][2]>>]

\* two chains have been built, as the arguments of a combine() to come
InitCombine ==
  \E c1, c2 \in Operands :
    /\ heap = Run(Run(<<Template>>, cssSelectorBuilder, c1).heap, cssSelectorBuilder, c2).heap
    /\ supplied = <<<<>>, Adds(c1), Adds(c2)>>
    /\ thrown = <<FALSE, FALSE, FALSE>>
    /\ ret = [kind |-> "ref", ref |-> 3, str |-> ""]
    /\ last = [op |-> c2[Len(c2)][1], this |-> 3, value |-> c2[Len(c2)][2], a |-> 3]
    /\ before = LET h == Run(Run(<<Template>>, cssSelectorBuilder, c1).heap, cssSelectorBuilder,
                             SubSeq(c2, 1, Len(c2) - 1)).heap
                IN  [heap |-> h, obj |-> h[3], supplied |-> SubSeq(Adds(c2), 1, Len(c2) - 1),
                     thrown |-> FALSE]
    /\ chains = <<>>
    /\ called = 0
    /\ held = <<>>
    /\ args = <<>> /\ rect = <<>> /\ area = <<>>
    /\ given = <<>> /\ json = <<>> /\ made = <<>>

NextCombine ==
  \/ \E selector1, selector2 \in Renderables, combinator \in Symbols :
        Combine(selector1, combinator, selector2)
  \/ StringifyCompound
  \/ \E this \in 1..Len(heap) : Stringify(this) /\ UNCHANGED others

SpecCombine == InitCombine /\ [][NextCombine]_vars

-----------------------------------------------------------------------------
(* The whole builder: add-operations and stringify() on cssSelectorBuilder *)
(* and on every instance, combine() of any two fragment sets, and          *)
(* stringify() of the compound, in any order.                               *)

\* the name handed to a call on this: each instance has its own, and a call on
\* cssSelectorBuilder hands over the name of the instance it creates
NameFor(this) == ChainNames[IF this = cssSelectorBuilder THEN Len(heap) ELSE this - 1]

\* an add may be called on this: an instance may still be created, and the heap has room
MayCall(this) ==
  /\ this = cssSelectorBuilder => Len(heap) <= Len(ChainNames)
  /\ Total(supplied) < MaxHeld

FragmentSets == {[set |-> i] : i \in DOMAIN heap}

NextBuilder ==
  \/ \E this \in DOMAIN heap : MayCall(this) /\ Element(this, NameFor(this)) /\ UNCHANGED others
  \/ \E this \in DOMAIN heap : MayCall(this) /\ Id(this, NameFor(this)) /\ UNCHANGED others
  \/ \E this \in DOMAIN heap : MayCall(this) /\ Class(this, NameFor(this)) /\ UNCHANGED others
  \/ \E this \in DOMAIN heap : MayCall(this) /\ Attr(this, NameFor(this)) /\ UNCHANGED others
  \/ \E this \in DOMAIN heap : MayCall(this) /\ PseudoClass(this, NameFor(this)) /\ UNCHANGED others
  \/ \E this \in DOMAIN heap : MayCall(this) /\ PseudoElement(this, NameFor(this)) /\ UNCHANGED others
  \/ \E this \in DOMAIN heap : Stringify(this) /\ UNCHANGED others
  \/ \E selector1, selector2 \in FragmentSets, combinator \in Symbols :
        Combine(selector1, combinator, selector2)
  \/ StringifyCompound

SpecBuilder == Loaded /\ [][NextBuilder]_vars

-----------------------------------------------------------------------------
(* Rectangle.  Numbers are the integers 0..MaxSide, which JavaScript       *)
(* multiplies exactly.  getArea closes over the parameters width and       *)
(* height, not over the properties of r.                                    *)

\* getArea returning the sum of the sides
getAreaSum(r) == r.closure.width + r.closure.height

getArea(r) == r.closure.width * r.closure.height

Rectangle(width, height) ==
  [width |-> width, height |-> height, closure |-> [width |-> width, height |-> height]]

NewRectangle(width, height) ==
  /\ args' = <<width, height>>
  /\ rect' = <<Rectangle(width, height)>>
  /\ area' = <<>>
  /\ UNCHANGED selectors

GetArea ==
  /\ rect # <<>>
  /\ area' = <<getArea(rect[1])>>
  /\ UNCHANGED <<args, rect>>
  /\ UNCHANGED selectors

NextRectangle ==
  \/ \E width, height \in 0..MaxSide : NewRectangle(width, height)
  \/ GetArea

SpecRectangle == Loaded /\ [][NextRectangle]_vars

-----------------------------------------------------------------------------
(* getJSON and fromJSON.  A JavaScript value is a record of one field,     *)
(* named after its type: a number, a string (a sequence of characters), a  *)
(* boolean, null, or a plain object (its own enumerable properties         *)
(* <<key, value>> in creation order).  A json text is a sequence of        *)
(* characters.  JSON.stringify, JSON.parse, Object.create    *)
(* and Object.assign are modelled by what ECMAScript defines them to do on *)
(* these values.                                                            *)

Num(n) == [num |-> n]

Str(s) == [str |-> s]

Bool(b) == [bool |-> b]

Null == [null |-> TRUE]

Obj(fields) == [obj |-> fields]

\* typeof, with null and object told apart
Type(x) == CHOOSE t \in DOMAIN x : TRUE

\* the key __proto__
ProtoKey == <<"_", "_", "p", "r", "o", "t", "o", "_", "_">>

Digit == <<"0", "1", "2", "3", "4", "5", "6", "7", "8", "9">>

DigitValue(c) == CHOOSE d \in 0..9 : Digit[d + 1] = c

\* Number::toString of a non-negative integer
RECURSIVE NumberText(_)
NumberText(n) ==
  IF n < 10 THEN <<Digit[n + 1]>> ELSE NumberText(n \div 10) \o <<Digit[(n % 10) + 1]>>

\* QuoteJSONString: the string between quotes, quote and backslash escaped
RECURSIVE Escaped(_)
Escaped(s) ==
  IF s = <<>> THEN <<>>
  ELSE (IF Head(s) \in {"\"", "\\"} THEN <<"\\", Head(s)>> ELSE <<Head(s)>>) \o Escaped(Tail(s))

Quote(s) == <<"\"">> \o Escaped(s) \o <<"\"">>

\* JSON.stringify(x), without indentation
RECURSIVE JSONstringify(_), Members(_)
Members(fields) ==
  IF fields = <<>> THEN <<>>
  ELSE Quote(Head(fields)[1]) \o <<":">> \o JSONstringify(Head(fields)[2])
       \o (IF Len(fields) > 1 THEN <<",">> \o Members(Tail(fields)) ELSE <<>>)

JSONstringify(x) ==
  CASE Type(x) = "num" -> IF x.num < 0 THEN <<"-">> \o NumberText(-x.num) ELSE NumberText(x.num)
    [] Type(x) = "str" -> Quote(x.str)
    [] Type(x) = "bool" -> IF x.bool THEN <<"t", "r", "u", "e">> ELSE <<"f", "a", "l", "s", "e">>
    [] Type(x) = "null" -> <<"n", "u", "l", "l">>
    [] Type(x) = "obj" -> <<"{">> \o Members(x.obj) \o <<"}">>

getJSON(obj) == JSONstringify(obj)

\* JSON.parse: every parser returns whether it succeeded, the value, and the text left
Fail == [ok |-> FALSE, val |-> Null, rest |-> <<>>]

Parsed(val, text) == [ok |-> TRUE, val |-> val, rest |-> text]

StartsWith(text, word) == Len(text) >= Len(word) /\ SubSeq(text, 1, Len(word)) = word

Drop(text, n) == SubSeq(text, n + 1, Len(text))

\* CreateDataProperty on the object being parsed: a repeated key keeps its place, the last value wins
Put(fields, key, val) ==
  IF \E i \in DOMAIN fields : fields[i][1] = key
    THEN [i \in DOMAIN fields |-> IF fields[i][1] = key THEN <<key, val>> ELSE fields[i]]
    ELSE Append(fields, <<key, val>>)

\* the characters of a string literal, after its opening quote
RECURSIVE ParseString(_, _)
ParseString(text, acc) ==
  IF text = <<>> THEN Fail
  ELSE IF Head(text) = "\"" THEN Parsed(acc, Tail(text))
  ELSE IF Head(text) = "\\"
    THEN IF Len(text) >= 2 /\ text[2] \in {"\"", "\\", "/"}
           THEN ParseString(Drop(text, 2), Append(acc, text[2]))
           ELSE Fail
  ELSE ParseString(Tail(text), Append(acc, Head(text)))

\* the digits of a number
RECURSIVE ParseDigits(_, _)
ParseDigits(text, n) ==
  IF text # <<>> /\ Head(text) \in {Digit[i] : i \in DOMAIN Digit}
    THEN ParseDigits(Tail(text), 10 * n + DigitValue(Head(text)))
    ELSE Parsed(n, text)

IsDigit(text) == text # <<>> /\ Head(text) \in {Digit[i] : i \in DOMAIN Digit}

RECURSIVE ParseValue(_), ParseMembers(_, _)
\* the members of an object, after '{' or after ','
ParseMembers(text, fields) ==
  IF text = <<>> \/ Head(text) # "\"" THEN Fail
  ELSE LET key == ParseString(Tail(text), <<>>)
       IN  IF ~key.ok \/ key.rest = <<>> \/ Head(key.rest) # ":" THEN Fail
           ELSE LET val == ParseValue(Tail(key.rest))
                IN  IF ~val.ok \/ val.rest = <<>> THEN Fail
                    ELSE IF Head(val.rest) = ","
                      THEN ParseMembers(Tail(val.rest), Put(fields, key.val, val.val))
                    ELSE IF Head(val.rest) = "}"
                      THEN Parsed(Obj(Put(fields, key.val, val.val)), Tail(val.rest))
                    ELSE Fail

ParseValue(text) ==
  IF text = <<>> THEN Fail
  ELSE IF Head(text) = "{"
    THEN IF Len(text) >= 2 /\ text[2] = "}" THEN Parsed(Obj(<<>>), Drop(text, 2))
         ELSE ParseMembers(Tail(text), <<>>)
  ELSE IF Head(text) = "\""
    THEN LET s == ParseString(Tail(text), <<>>)
         IN  IF s.ok THEN Parsed(Str(s.val), s.rest) ELSE Fail
  ELSE IF Head(text) = "-"
    THEN IF IsDigit(Tail(text))
           THEN LET n == ParseDigits(Tail(text), 0) IN Parsed(Num(-n.val), n.rest)
           ELSE Fail
  ELSE IF IsDigit(text)
    THEN LET n == ParseDigits(text, 0) IN Parsed(Num(n.val), n.rest)
  ELSE IF StartsWith(text, <<"t", "r", "u", "e">>) THEN Parsed(Bool(TRUE), Drop(text, 4))
  ELSE IF StartsWith(text, <<"f", "a", "l", "s", "e">>) THEN Parsed(Bool(FALSE), Drop(text, 5))
  ELSE IF StartsWith(text, <<"n", "u", "l", "l">>) THEN Parsed(Null, Drop(text, 4))
  ELSE Fail

\* JSON.parse(text): the whole text is one value, or a SyntaxError is thrown
JSONparse(text) ==
  LET r == ParseValue(text)
  IN  IF r.ok /\ r.rest = <<>> THEN r ELSE Fail

\* Object.create(proto): no own properties, prototype proto
ObjectCreate(proto) == [ok |-> TRUE, proto |-> [is |-> proto, to |-> Null], own |-> <<>>]

\* Object.prototype, and with it the accessor __proto__, is on the prototype
\* chain of Circle.prototype and of every parsed object, not of null
InheritsObjectPrototype(proto) == proto.is # "null"

\* target[key] = value, as Object.assign does it ([[Set]], not [[DefineOwnProperty]]):
\* an own property is overwritten; the inherited setter of __proto__ changes the
\* prototype when value is an object or null and does nothing otherwise; any
\* other key becomes an own property
Set(target, key, value) ==
  IF \E i \in DOMAIN target.own : target.own[i][1] = key
    THEN [target EXCEPT !.own = Put(@, key, value)]
  ELSE IF key = ProtoKey /\ InheritsObjectPrototype(target.proto)
    THEN IF Type(value) = "obj" THEN [target EXCEPT !.proto = [is |-> "parsed", to |-> value]]
         ELSE IF Type(value) = "null" THEN [target EXCEPT !.proto = [is |-> "null", to |-> Null]]
         ELSE target
  ELSE [target EXCEPT !.own = Append(@, <<key, value>>)]

RECURSIVE SetAll(_, _)
SetAll(target, fields) ==
  IF fields = <<>> THEN target
  ELSE SetAll(Set(target, Head(fields)[1], Head(fields)[2]), Tail(fields))

\* Object.assign(target, source): the own enumerable properties of source, in
\* order; a string has its characters under '0', '1', ..; a number, a boolean
\* and null have none
ObjectAssign(target, source) ==
  IF Type(source) = "obj" THEN SetAll(target, source.obj)
  ELSE IF Type(source) = "str"
    THEN SetAll(target, [i \in DOMAIN source.str |-> <<NumberText(i - 1), Str(<<source.str[i]>>)>>])
  ELSE target

fromJSON(proto, text) ==
  LET a == ObjectCreate(proto)
      parsed == JSONparse(text)
  IN  IF parsed.ok THEN ObjectAssign(a, parsed.val)
      ELSE [ok |-> FALSE, proto |-> [is |-> proto, to |-> Null], own |-> <<>>]

\* the prototypes handed to fromJSON
Prototypes == {"Circle.prototype", "null"}

JSONKeys == {<<"x">>, <<"y">>, ProtoKey}

\* property values: numbers, strings (one with a quote, a backslash, a comma
\* and a brace), a boolean, null and nested objects
JSONValues ==
  {Num(0), Num(10), Num(-3), Str(<<>>), Str(<<"a", "\"", "\\", ",", "}">>),
   Bool(TRUE), Null, Obj(<<>>), Obj(<<<<<<"x">>, Num(7)>>>>)}

\* plain objects of at most MaxFields own properties, under distinct keys
PlainObjects ==
  {Obj(fields) : fields \in
     {f \in UNION {[1..n -> JSONKeys \X JSONValues] : n \in 0..MaxFields} :
        \A i, j \in DOMAIN f : i # j => f[i][1] # f[j][1]}}

GetJSON ==
  /\ json' = <<getJSON(given[1])>>
  /\ UNCHANGED <<given, made>>
  /\ UNCHANGED rest

FromJSON ==
  /\ json # <<>>
  /\ made' = <<fromJSON(given[2], json[1])>>
  /\ UNCHANGED <<given, json>>
  /\ UNCHANGED rest

\* a plain object and a prototype are at hand; nothing was called yet
InitJSON ==
  /\ heap = <<Template>>
  /\ ret = [kind |-> "none", ref |-> 0, str |-> ""]
  /\ last = [op |-> "none", this |-> 0, value |-> "", a |-> 0]
  /\ before = [heap |-> <<Template>>, obj |-> Template, supplied |-> <<>>, thrown |-> FALSE]
  /\ supplied = <<<<>>>>
  /\ thrown = <<FALSE>>
  /\ chains = <<>> /\ called = 0 /\ held = <<>>
  /\ args = <<>> /\ rect = <<>> /\ area = <<>>
  /\ \E obj \in PlainObjects, proto \in Prototypes : given = <<obj, proto>>
  /\ json = <<>> /\ made = <<>>

NextJSON ==
  \/ GetJSON
  \/ FromJSON

SpecJSON == InitJSON /\ [][NextJSON]_vars

-----------------------------------------------------------------------------
(* Vocabulary of the claims, over the history of accepted adds *)

\* the sequence s of <<category, name>> follows the grammar: categories never
\* decrease and element, id and pseudo-element occur at most once
GrammarOrder(s) ==
  \A i, j \in DOMAIN s :
    i < j => /\ s[i][1] <= s[j][1]
             /\ s[i][1] = s[j][1] => s[i][1] \notin Singleton

\* the text one fragment contributes, separator included
Fragment(e) ==
  CASE e[1] = 0 -> e[2]
    [] e[1] = 1 -> "#" \o e[2]
    [] e[1] = 2 -> "." \o e[2]
    [] e[1] = 3 -> "[" \o e[2] \o "]"
    [] e[1] = 4 -> ":" \o e[2]
    [] e[1] = 5 -> "::" \o e[2]

\* the fragments of s, concatenated in the order of s
RECURSIVE Canonical(_)
Canonical(s) == IF s = <<>> THEN "" ELSE Fragment(Head(s)) \o Canonical(Tail(s))

\* the same, an id or pseudo-element named '' contributing nothing
RECURSIVE CanonicalNonEmpty(_)
CanonicalNonEmpty(s) ==
  IF s = <<>> THEN ""
  ELSE (IF Head(s)[1] \in {1, 5} /\ Head(s)[2] = "" THEN "" ELSE Fragment(Head(s)))
       \o CanonicalNonEmpty(Tail(s))

\* the last call was an add-operation / a stringify() of a fragment set
IsAdd == last.op \in AddOps

IsRender == last.op = "stringify"

Accepted == ret.kind = "ref"

ThrewDuplicate == ret.kind = "throw" /\ ret.str = DuplicateMsg

ThrewOrder == ret.kind = "throw" /\ ret.str = OrderMsg

\* categories supplied to the object before the last call, whatever the name
SuppliedCats == {before.supplied[i][1] : i \in DOMAIN before.supplied}

\* categories present before the last call: supplied, and for element, id and
\* pseudo-element with a name other than ''
PresentCats ==
  {before.supplied[i][1] : i \in {k \in DOMAIN before.supplied :
      before.supplied[k][1] \in Singleton => before.supplied[k][2] # ""}}

\* number of entries of category c in s / of those named other than ''
Count(s, c) == Cardinality({i \in DOMAIN s : s[i][1] = c})

CountNonEmpty(s, c) == Cardinality({i \in DOMAIN s : s[i][1] = c /\ s[i][2] # ""})

\* every fragment field of o is empty
Cleared(o) ==
  /\ o.nameEl = "" /\ o.nameID = "" /\ o.namePE = ""
  /\ o.nameCl = <<>> /\ o.nameAt = <<>> /\ o.namePC = <<>>

-----------------------------------------------------------------------------
(* C1 *)

\* C1 (as stated): adds applied to a fresh chain in grammar order all succeed,
\* and stringify() returns every supplied fragment with its separator, in
\* that order: name, '#'+id, '.'+class, '['+attr+']', ':'+pc, '::'+pe.
C1_OrderLaw ==
  /\ (IsAdd /\ ~before.thrown
        /\ GrammarOrder(Append(before.supplied, <<Category(last.op), last.value>>)))
       => Accepted
  /\ (IsRender /\ ~before.thrown /\ GrammarOrder(before.supplied))
       => ret.str = Canonical(before.supplied)

\* C1 (amended): the same, except that an id or a pseudo-element supplied as
\* the empty string contributes nothing (no '#', no '::').
C1_OrderLawNonEmpty ==
  /\ (IsAdd /\ ~before.thrown
        /\ GrammarOrder(Append(before.supplied, <<Category(last.op), last.value>>)))
       => Accepted
  /\ (IsRender /\ ~before.thrown /\ GrammarOrder(before.supplied))
       => ret.str = CanonicalNonEmpty(before.supplied)

C1_Witness ==
  /\ IsRender /\ ~before.thrown
  /\ before.supplied = <<<<0, "a">>, <<1, "b">>, <<2, "a">>>>
  /\ ret.str = "a#b.a"

-----------------------------------------------------------------------------
(* C2 *)

\* C2 (as stated): element(), id() or pseudoElement() on an object to which
\* that category was already supplied since its last render throws the
\* duplicate error, whatever the names; no object is ever supplied two
\* elements, two ids or two pseudo-elements.
C2_SingletonUnique ==
  /\ (IsAdd /\ Category(last.op) \in Singleton /\ Category(last.op) \in SuppliedCats)
       => ThrewDuplicate
  /\ \A i \in DOMAIN supplied : \A c \in Singleton : Count(supplied[i], c) <= 1

\* C2 (amended): the duplicate error is thrown when the category was already
\* supplied with a name other than ''; no object is ever supplied two
\* non-empty elements, ids or pseudo-elements.
C2_SingletonUniqueNonEmpty ==
  /\ (IsAdd /\ Category(last.op) \in Singleton
        /\ CountNonEmpty(before.supplied, Category(last.op)) > 0)
       => ThrewDuplicate
  /\ \A i \in DOMAIN supplied : \A c \in Singleton : CountNonEmpty(supplied[i], c) <= 1

C2_Witness ==
  /\ last.op = "pseudoElement" /\ last.value = "b"
  /\ CountNonEmpty(before.supplied, 5) = 1
  /\ ThrewDuplicate

-----------------------------------------------------------------------------
(* C3 *)

\* C3 (as stated): an add of category c throws the out-of-order error exactly
\* when a fragment of a category greater than c was already supplied and the
\* call is not a duplicate of a singleton category; otherwise it is accepted.
C3_OrderingRule ==
  IsAdd =>
    LET c == Category(last.op)
        later == \E d \in SuppliedCats : d > c
        duplicate == c \in Singleton /\ c \in SuppliedCats
    IN  /\ ThrewOrder <=> (later /\ ~duplicate)
        /\ (~later /\ ~duplicate) => Accepted

\* C3 (amended): the same with "supplied" read as "present": an element, id or
\* pseudo-element supplied as '' is neither a later fragment nor a duplicate.
C3_OrderingRulePresent ==
  IsAdd =>
    LET c == Category(last.op)
        later == \E d \in PresentCats : d > c
        duplicate == c \in Singleton /\ c \in PresentCats
    IN  /\ ThrewOrder <=> (later /\ ~duplicate)
        /\ (~later /\ ~duplicate) => Accepted

\* id() after an element and a class
C3_Witness ==
  /\ last.op = "id" /\ ThrewOrder
  /\ PresentCats = {0, 2}

-----------------------------------------------------------------------------
(* C4 *)

\* C4: after stringify() the six fragment fields of the object are empty, and
\* a stringify() that directly follows a stringify() of the same object
\* returns ''.
C4_RenderClears ==
  /\ [](IsRender => Cleared(heap[last.a]))
  /\ [][(IsRender /\ last'.op = "stringify" /\ last'.a = last.a) => ret'.str = ""]_vars

\* an object that was loaded, rendered, and is rendered again
C4_Witness ==
  /\ IsRender /\ ~before.obj.isBasic
  /\ before.supplied = <<>> /\ Cleared(before.obj)
  /\ ret.str = ""

-----------------------------------------------------------------------------
(* C9 *)

\* C9 (as stated): a call that throws leaves the six fragment fields of the
\* object as they were before the call.
C9_RejectedUnchanged ==
  (IsAdd /\ ret.kind = "throw") => heap[last.a] = before.obj

-----------------------------------------------------------------------------
(* C10 *)

\* C10: element() or id() on an object in which that category is set and a
\* fragment of a later category was supplied throws the duplicate error, not
\* the out-of-order error.
C10_DuplicateFirst ==
  (/\ IsAdd /\ Category(last.op) \in Singleton
   /\ CountNonEmpty(before.supplied, Category(last.op)) > 0
   /\ \E d \in SuppliedCats : d > Category(last.op))
    => ThrewDuplicate

C10_Witness ==
  /\ last.op = "id" /\ ThrewDuplicate
  /\ CountNonEmpty(before.supplied, 1) = 1
  /\ 2 \in SuppliedCats

-----------------------------------------------------------------------------
(* C6 *)

\* the object chain c holds in the heap it would have if run alone
Alone(c) == c.alone.heap[c.alone.ref]

\* C6: chains started from cssSelectorBuilder do not interfere, however their
\* calls interleave: every chain's object is what the chain's own calls, run
\* alone, would have made it; a call on one chain (or on cssSelectorBuilder)
\* leaves the objects of the other chains unchanged; and stringify() on a
\* chain returns what it would return had the chain run alone.
C6_Isolation ==
  /\ [](\A k \in DOMAIN chains : heap[chains[k].ref] = Alone(chains[k]))
  /\ [][\A k \in DOMAIN chains :
          k # called' => heap'[chains[k].ref] = heap[chains[k].ref]]_vars
  /\ [][(last'.op = "stringify" /\ called' # 0)
          => ret'.str = Render(Alone(chains[called']))]_vars

\* chain 1 is rendered while chain 2 holds fragments of its own
C6_Witness ==
  /\ Len(chains) = 2 /\ IsRender /\ called = 1
  /\ before.supplied = <<<<0, "a">>, <<2, "a">>>> /\ ret.str = "a.a"
  /\ supplied[chains[2].ref] = <<<<1, "b">>, <<5, "b">>>>
  /\ Render(heap[chains[2].ref]) = "#b::b"

-----------------------------------------------------------------------------
(* C5 *)

\* heap h once every fragment set that x reaches has been rendered
Consumed(h, x) == [i \in DOMAIN h |-> IF i \in Leaves(x) THEN Reset(h[i]) ELSE h[i]]

\* the string x.stringify() would return on heap h, by the combination law:
\* a fragment set gives its fragments, combine(A, s, B) gives what A would
\* return, then ' ' + s + ' ', then what B would then return
RECURSIVE Would(_, _)
Would(h, x) ==
  IF IsSet(x) THEN Render(h[x.set])
  ELSE Would(h, x.a) \o " " \o x.b \o " " \o Would(Consumed(h, x.a), x.c)

\* the nested example of the documentation, lines 103-116
DocExample ==
  LET h1 == Run(<<Template>>, cssSelectorBuilder,
                <<<<"element", "div">>, <<"id", "main">>, <<"class", "container">>,
                  <<"class", "draggable">>>>)
      h2 == Run(h1.heap, cssSelectorBuilder, <<<<"element", "table">>, <<"id", "data">>>>)
      h3 == Run(h2.heap, cssSelectorBuilder,
                <<<<"element", "tr">>, <<"pseudoClass", "nth-of-type(even)">>>>)
      h4 == Run(h3.heap, cssSelectorBuilder,
                <<<<"element", "td">>, <<"pseudoClass", "nth-of-type(even)">>>>)
  IN  stringifyOf(h4.heap,
        combine([set |-> h1.ref], "+",
          combine([set |-> h2.ref], "~",
            combine([set |-> h3.ref], " ", [set |-> h4.ref])))).str

\* the same with both sides taken on the heap the compound is called on
RECURSIVE WouldEach(_, _)
WouldEach(h, x) ==
  IF IsSet(x) THEN Render(h[x.set])
  ELSE WouldEach(h, x.a) \o " " \o x.b \o " " \o WouldEach(h, x.c)

DocString == "div#main.container.draggable + table#data ~ tr:nth-of-type(even)   td:nth-of-type(even)"

\* C5 (as stated): stringify() of combine(A, s, B) returns the string
\* A.stringify() would return, then ' ' + s + ' ', then the string
\* B.stringify() would return, for any renderables A and B and any symbol s,
\* recursively; the nested example of the documentation renders as documented.
C5_CombinationLaw ==
  /\ last.op = "compound.stringify" => ret.str = WouldEach(before.heap, held[1])
  /\ DocExample = DocString

\* C5 (amended): the right-hand string is the one B.stringify() would return
\* once A has been rendered: a fragment set that A reaches too gives ''.
C5_CombinationLawInTurn ==
  /\ last.op = "compound.stringify" => ret.str = Would(before.heap, held[1])
  /\ DocExample = DocString

\* a compound of a fragment set and a compound of two further ones has been rendered
C5_Witness ==
  /\ last.op = "compound.stringify"
  /\ held = <<combine([set |-> 2], "+", combine([set |-> 3], "!", [set |-> 2]))>>
  /\ ret.str = "#b.a + b[a]:b ! "

-----------------------------------------------------------------------------
(* C7 *)

\* C7: the object Rectangle(w, h) returns has width w and height h, and its
\* getArea() returns w * h, for all w and h in 0..MaxSide.
C7_Rectangle ==
  /\ rect # <<>> => rect[1].width = args[1] /\ rect[1].height = args[2]
  /\ area # <<>> => area[1] = args[1] * args[2]

C7_Witness == args = <<3, 4>> /\ rect # <<>> /\ area = <<12>>

-----------------------------------------------------------------------------
(* C8 *)

\* the own fields of an object, as a set of <<key, value>>
Fields(fields) == {fields[i] : i \in DOMAIN fields}

\* C8 (as stated): fromJSON(p, getJSON(v)) returns an object whose own fields
\* are exactly the own fields of v, with equal values, and whose prototype
\* (hence whose methods) is p, for every plain value v and prototype p.
C8_RoundTrip ==
  made # <<>> =>
    /\ made[1].ok
    /\ Fields(made[1].own) = Fields(given[1].obj)
    /\ made[1].proto.is = given[2]

-----------------------------------------------------------------------------
(* C11 *)

\* the last call was combine() / stringify() of the compound
IsCombine == last.op = "combine"

IsCompoundRender == last.op = "compound.stringify"

\* C11 (as stated): once combine() has returned, no operation changes the
\* string the compound's first stringify() returns; in particular an
\* add-operation or a stringify() on a fragment set, made right after
\* combine() returned, leaves that string as it was at combine time.
C11_CompoundImmutable ==
  [][(IsCombine /\ last'.op \in AddOps \cup {"stringify"})
       => stringifyOf(heap', held[1]).str = stringifyOf(heap, held[1]).str]_vars

-----------------------------------------------------------------------------
(* C12 *)

\* both sides of the compound x are fragment sets
OfSets(x) == IsSet(x.a) /\ IsSet(x.c)

\* C12: stringify() of combine(A, s, B), A and B fragment sets, returns the
\* fragments A held, ' ' + s + ' ', and the fragments B held, or nothing for
\* B when B is A; it leaves every fragment field of A and of B empty; and a
\* stringify() of the compound that directly follows returns ' ' + s + ' '.
C12_RenderConsumes ==
  /\ [](IsCompoundRender /\ OfSets(held[1]) =>
         LET A == held[1].a.set
             B == held[1].c.set
         IN  /\ Cleared(heap[A]) /\ Cleared(heap[B])
             /\ ret.str = Render(before.heap[A]) \o " " \o held[1].b \o " "
                            \o (IF A = B THEN "" ELSE Render(before.heap[B])))
  /\ [][(IsCompoundRender /\ OfSets(held[1]) /\ last'.op = "compound.stringify")
          => ret'.str = " " \o held[1].b \o " "]_vars

\* combine(A, '+', B) of two loaded instances has been rendered
C12_Witness ==
  /\ IsCompoundRender /\ held = <<combine([set |-> 2], "+", [set |-> 3])>>
  /\ ~Cleared(before.heap[2]) /\ ~Cleared(before.heap[3])
  /\ ret.str = "a + #b"

-----------------------------------------------------------------------------
(* C13 *)

\* C13: whatever calls were made on cssSelectorBuilder and on the instances,
\* the template has isBasic true, nameEl, nameID and namePE '' and nameCl,
\* nameAt and namePC empty.
C13_TemplatePristine == heap[cssSelectorBuilder] = Template

\* add-operations, a throwing one among them, combine() and stringify() were
\* called, the last on cssSelectorBuilder itself
C13_Witness ==
  /\ IsRender /\ last.this = cssSelectorBuilder
  /\ Len(heap) = 3 /\ held # <<>>
  /\ \E i \in DOMAIN thrown : thrown[i]

-----------------------------------------------------------------------------
(* C14 *)

\* an instance that holds the one fragment <<c, value>> and nothing else
Only(c, value) ==
  CASE c = 0 -> [clear(Template) EXCEPT !.nameEl = value]
    [] c = 1 -> [clear(Template) EXCEPT !.nameID = value]
    [] c = 2 -> [clear(Template) EXCEPT !.nameCl = <<value>>]
    [] c = 3 -> [clear(Template) EXCEPT !.nameAt = <<value>>]
    [] c = 4 -> [clear(Template) EXCEPT !.namePC = <<value>>]
    [] c = 5 -> [clear(Template) EXCEPT !.namePE = value]

\* C14: an add-operation called on cssSelectorBuilder returns an object that
\* did not exist before, is not the template, has isBasic false and holds
\* only the fragment just added; an add-operation accepted on an instance
\* returns that instance; no instance ever has isBasic true; and after its
\* stringify() an instance equals a fresh clone of the template, so it takes
\* the next sequence of adds as a fresh chain does.
C14_CloneOnFirstUse ==
  /\ [][(last'.op \in AddOps /\ last'.this = cssSelectorBuilder) =>
          /\ ret'.kind = "ref"
          /\ ret'.ref \notin DOMAIN heap
          /\ ret'.ref # cssSelectorBuilder
          /\ heap'[ret'.ref] = Only(Category(last'.op), last'.value)]_vars
  /\ []((IsAdd /\ last.this # cssSelectorBuilder /\ Accepted) => ret.ref = last.this)
  /\ [](\A i \in DOMAIN heap : i # cssSelectorBuilder => heap[i].isBasic = FALSE)
  /\ []((IsRender /\ last.this # cssSelectorBuilder) => heap[last.this] = clear(Template))

\* a second instance has just been created, the first holding two fragments
C14_Witness ==
  /\ IsAdd /\ last.this = cssSelectorBuilder /\ ret.ref = 3 /\ Len(heap) = 3
  /\ heap[3] = Only(1, "b")
  /\ heap[2] = [Only(0, "a") EXCEPT !.nameCl = <<"a">>]

-----------------------------------------------------------------------------
(* C15 *)

\* the entry <<category, name>> counts as present: any class, attribute or
\* pseudo-class, and an element, id or pseudo-element named other than ''
IsPresent(e) == e[1] \in Singleton => e[2] # ""

\* a class, attribute or pseudo-class named '' was supplied, of a category after c
EmptyListAfter(c) ==
  \E i \in DOMAIN before.supplied :
    /\ before.supplied[i][1] \notin Singleton
    /\ before.supplied[i][2] = ""
    /\ before.supplied[i][1] > c

\* C15: element(''), id('') and pseudoElement('') are accepted when no
\* non-empty name of that category and no later category is present, and
\* leave the object as it was; so the category stays absent: a later call
\* of that category is no duplicate, the duplicate error is thrown only
\* after a non-empty name, the order error only for a later category that
\* is present, and stringify() returns the present fragments alone.  A
\* class, attribute or pseudo-class named '' is present: after it, no add
\* of an earlier category is accepted.
C15_PresenceByNonEmptiness ==
  LET c == Category(last.op)
  IN  /\ (IsAdd /\ c \in Singleton /\ last.value = "" /\ Accepted) => heap[last.a] = before.obj
      /\ (IsAdd /\ c \in Singleton /\ CountNonEmpty(before.supplied, c) = 0
            /\ \A d \in PresentCats : d <= c) => Accepted
      /\ (IsAdd /\ ThrewDuplicate) => CountNonEmpty(before.supplied, c) > 0
      /\ (IsAdd /\ ThrewOrder) => \E d \in PresentCats : d > c
      /\ (IsAdd /\ EmptyListAfter(c)) => ~Accepted
      /\ (IsRender /\ ~before.thrown)
            => ret.str = Canonical(SelectSeq(before.supplied, IsPresent))

\* id('') was accepted earlier, and now id('a') is accepted after it
C15_Witness ==
  /\ last.op = "id" /\ last.value = "a" /\ Accepted
  /\ before.supplied = <<<<0, "">>, <<1, "">>>>
  /\ heap[last.a].nameID = "a"

=============================================================================
